---- MODULE Spec2Model ----
(***************************************************************************)
(* Model of rlink/learner/base_learner.py: the RLinkLearner bridge.        *)
(*                                                                         *)
(* One RLinkLearner instance is modelled with the execution contexts that  *)
(* act on it:                                                              *)
(*   - the caller of serve_forever() (main thread), which sets _running,   *)
(*     starts the background thread and then blocks in uvicorn.run();      *)
(*   - the background threads run_async_tasks(), one per serve_forever()   *)
(*     call, each owning an event loop that runs _start_ucxx_server();     *)
(*   - a caller of close(), which may run in any thread;                   *)
(*   - the control-plane handlers root(), available() and data_probe(),    *)
(*     which run on uvicorn's event loop while it serves. None of the      *)
(*     handlers contains an await, so each handler body is one step.       *)
(***************************************************************************)
EXTENDS Integers, Sequences, FiniteSets, TLC

(* ------------------------------ bounds -------------------------------- *)
MaxServe  == 2      \* serve_forever() calls on the instance
MaxClose  == 2      \* close() calls on the instance
MaxProbes == 2      \* Probe requests received by the control-plane
MaxConns  == 2      \* data-plane connections opened by actors
MaxMsgs   == 2      \* Envelopes an actor sends on one connection

(* --------------------------- program constants ------------------------ *)
DataPort == 13338   \* data_port default

(* ------------------------------ values -------------------------------- *)
\* Decoded msgpack values that may appear as actor_id: strings, nil, integers
\* and lists. t is the Python type of the value, v its printed form.
Str(s)   == [t |-> "str", v |-> s]
Nil      == [t |-> "nil", v |-> "None"]
Int7     == [t |-> "int", v |-> "7"]
ListVal  == [t |-> "list", v |-> "[]"]
Absent   == [t |-> "absent", v |-> ""]     \* the field is not in the record

ActorIdVals == {Str("actor-7"), Str("A"), Str(""), Nil, Int7, ListVal}
NoSize      == -1                          \* the field is not in the record

\* Request bodies of POST /data_probe: bytes that do not decode, bytes that
\* decode to something that is not a map, and maps with or without the two
\* metadata fields.
MapBody(a, s) == [kind |-> "map", actor_id |-> a, data_size |-> s]
Malformed     == [kind |-> "malformed", actor_id |-> Absent, data_size |-> NoSize]
NonMap        == [kind |-> "nonmap", actor_id |-> Absent, data_size |-> NoSize]
Bodies ==
    {Malformed, NonMap}
    \cup {MapBody(a, 100) : a \in ActorIdVals}
    \cup {MapBody(Str("actor-7"), 200), MapBody(Absent, 100),
          MapBody(Str("actor-7"), NoSize), MapBody(Absent, NoSize)}

EmptyDict == [x \in {} |-> x]               \* the dict {}

\* Python's hash(): lists are unhashable, so they cannot be dictionary keys.
Hashable(a) == a.t # "list"

(* ----------------------------- variables ------------------------------ *)
VARIABLES
    enable_ucxx,          \* self._enable_ucxx (constructor argument)
    running,              \* self._running
    learner_data_server,  \* self._learner_data_server: 0 = None, else listener id
    listeners,            \* the ucxx listeners created so far: [closed, releases]
    executor_shutdown,    \* self._executor has been shut down
    loop,                 \* self._loop: 0 = None, else the id of the loop's thread
    loops,                \* event loop of each background thread: none/open/closed
    actor_info,           \* self._actor_info
    pc_main,              \* position of the serve_forever() caller
    pc_bg,                \* position of each background thread
    pc_close,             \* position of the close() caller
    clock,                \* time.time(), as a logical clock
    inflight,             \* Probe requests received, handler not yet run: body -> count
    last_response,        \* the response of the last handler that ran
    escaped,              \* the methods an exception has left to their caller
    h_serve_calls,        \* history: serve_forever() calls made
    h_close_calls,        \* history: close() calls made
    h_probes,             \* history: Probe requests received
    h_handled,            \* history: the Probe handlers run, in order
    h_shutdown,           \* history: close() was called or uvicorn was interrupted
    h_bind_failed,        \* history: ucxx.create_listener raised
    h_was_stopped,        \* history: _running went from True to False
    conns,                \* the data-plane endpoints: [pc (of actor_data_callback),
                          \* up (the actor holds it open), listener, sent
                          \* (Envelopes the actor sent), received (how many
                          \* recv_obj returned), acks (objects sent back)]
    h_delivered,          \* history: the messages handed to data_callback
    h_close_snap          \* history: <<>> when something other than close() ran
                          \* since close() was last entered; else <<s, k>>, k the
                          \* close() calls that have returned since and s the
                          \* state the first of them left

vars == <<enable_ucxx, running, learner_data_server, listeners, executor_shutdown,
          loop, loops, actor_info, pc_main, pc_bg, pc_close, clock, inflight,
          last_response, escaped, h_serve_calls, h_close_calls, h_probes,
          h_handled, h_shutdown, h_bind_failed, h_was_stopped,
          conns, h_delivered, h_close_snap>>

data_vars == <<conns, h_delivered>>

Conns == 1..MaxConns

\* A connection no actor has opened yet.
NoConn ==
    [pc |-> "none", up |-> FALSE, listener |-> 0, sent |-> <<>>,
     received |-> 0, acks |-> <<>>]

Threads == 1..MaxServe

NoResponse ==
    [op |-> "none", status |-> "", code |-> 0, actor_id |-> Absent,
     data_size |-> NoSize, ucxx_enabled |-> FALSE, ucxx_port |-> 0,
     has_stats |-> FALSE]

ConstructedRunning == TRUE
\* Line 77: self._running = False.
InitialRunning == FALSE

\* RLinkLearner.__init__
Init ==
    /\ enable_ucxx \in BOOLEAN
    /\ running = InitialRunning
    /\ learner_data_server = 0
    /\ listeners = <<>>
    /\ executor_shutdown = FALSE
    /\ loop = 0
    /\ loops = [t \in Threads |-> "none"]
    /\ actor_info = EmptyDict
    /\ pc_main = "idle"
    /\ pc_bg = [t \in Threads |-> "unstarted"]
    /\ pc_close = "idle"
    /\ clock = 1
    /\ inflight = [b \in Bodies |-> 0]
    /\ last_response = NoResponse
    /\ escaped = {}
    /\ h_serve_calls = 0
    /\ h_close_calls = 0
    /\ h_probes = 0
    /\ h_handled = <<>>
    /\ h_shutdown = FALSE
    /\ h_bind_failed = FALSE
    /\ h_was_stopped = FALSE
    /\ conns = [c \in Conns |-> NoConn]
    /\ h_delivered = <<>>
    /\ h_close_snap = <<>>

(* ------------------------- the running flag --------------------------- *)
\* An assignment self._running = v, with its history.
SetRunning(v) ==
    /\ running' = v
    /\ h_was_stopped' = (h_was_stopped \/ (running /\ ~v))

\* The part of the instance that close() can act on or that shows its effect.
BridgeState ==
    <<running, learner_data_server, listeners, executor_shutdown, loop, loops,
      actor_info, escaped>>

http_vars == <<actor_info, clock, inflight, last_response, h_probes, h_handled>>

(* --------------------------- serve_forever ---------------------------- *)
\* Line 270: self._running = True, unconditionally, as the first effect.
ServeForeverSetRunning ==
    /\ pc_main = "idle"
    /\ h_serve_calls < MaxServe
    /\ SetRunning(TRUE)
    /\ h_serve_calls' = h_serve_calls + 1
    /\ pc_main' = "start_thread"
    /\ h_close_snap' = <<>>
    /\ UNCHANGED <<enable_ucxx, learner_data_server, listeners, executor_shutdown,
                   loop, loops, pc_bg, pc_close, escaped, h_close_calls,
                   h_shutdown, h_bind_failed>>
    /\ UNCHANGED http_vars
    /\ UNCHANGED data_vars

\* Lines 298-299: the daemon thread running run_async_tasks is started.
ServeForeverStartThread ==
    /\ pc_main = "start_thread"
    /\ pc_bg' = [pc_bg EXCEPT ![h_serve_calls] = "new_loop"]
    /\ pc_main' = "sleep"
    /\ h_close_snap' = <<>>
    /\ UNCHANGED <<enable_ucxx, running, learner_data_server, listeners,
                   executor_shutdown, loop, loops, pc_close, escaped,
                   h_serve_calls, h_close_calls, h_shutdown, h_bind_failed, h_was_stopped>>
    /\ UNCHANGED http_vars
    /\ UNCHANGED data_vars

\* Lines 302-312: after the grace period uvicorn.run() binds the control-plane
\* port and serves.
ServeForeverServe ==
    /\ pc_main = "sleep"
    /\ pc_main' = "serving"
    /\ h_close_snap' = <<>>
    /\ UNCHANGED <<enable_ucxx, running, learner_data_server, listeners,
                   executor_shutdown, loop, loops, pc_bg, pc_close, escaped,
                   h_serve_calls, h_close_calls, h_shutdown, h_bind_failed, h_was_stopped>>
    /\ UNCHANGED http_vars
    /\ UNCHANGED data_vars

\* Lines 306-316 when the control-plane port cannot be bound: uvicorn ends with
\* SystemExit, which is no KeyboardInterrupt; the finally clause clears the
\* flag and the exception leaves serve_forever(), ending the main thread.
ServeForeverBindFails ==
    /\ pc_main = "sleep"
    /\ SetRunning(FALSE)
    /\ pc_main' = "exited"
    /\ h_close_snap' = <<>>
    /\ UNCHANGED <<enable_ucxx, learner_data_server, listeners, executor_shutdown,
                   loop, loops, pc_bg, pc_close, escaped, h_serve_calls,
                   h_close_calls, h_shutdown, h_bind_failed>>
    /\ UNCHANGED http_vars
    /\ UNCHANGED data_vars

\* Lines 313-316: uvicorn.run() returns or is interrupted (the shutdown signal);
\* the finally clause clears the flag and serve_forever() returns. Requests
\* whose handler has not run are dropped with the server.
ServeForeverExit ==
    /\ pc_main = "serving"
    /\ SetRunning(FALSE)
    /\ h_shutdown' = TRUE
    /\ inflight' = [b \in Bodies |-> 0]
    /\ pc_main' = "idle"
    /\ h_close_snap' = <<>>
    /\ UNCHANGED <<enable_ucxx, learner_data_server, listeners, executor_shutdown,
                   loop, loops, pc_bg, pc_close, escaped, h_serve_calls,
                   h_close_calls, h_bind_failed>>
    /\ UNCHANGED <<actor_info, clock, last_response, h_probes, h_handled>>
    /\ UNCHANGED data_vars

(* -------------------------- run_async_tasks --------------------------- *)
\* A thread is inside run_until_complete() while its coroutine is alive.
LoopRunning(t) == pc_bg[t] \in {"create_listener", "keep_alive", "sleeping"}

\* Lines 275-286: the thread creates its event loop, stores it in self._loop,
\* creates the _start_ucxx_server task when the data-plane is enabled and
\* enters run_until_complete(gather(*tasks)). With no task the gather is
\* already complete and run_until_complete returns at once.
RunAsyncTasksBegin(t) ==
    /\ pc_bg[t] = "new_loop"
    /\ loop' = t
    /\ loops' = [loops EXCEPT ![t] = "open"]
    /\ pc_bg' = [pc_bg EXCEPT ![t] =
                    IF enable_ucxx THEN "create_listener" ELSE "finally"]
    /\ h_close_snap' = <<>>
    /\ UNCHANGED <<enable_ucxx, running, learner_data_server, listeners,
                   executor_shutdown, pc_main, pc_close, escaped, h_serve_calls,
                   h_close_calls, h_shutdown, h_bind_failed,
                   h_was_stopped>>
    /\ UNCHANGED http_vars
    /\ UNCHANGED data_vars

\* Lines 135-141: ucxx.create_listener binds the data port; the new listener
\* replaces whatever self._learner_data_server held.
StartUcxxServerListen(t) ==
    /\ pc_bg[t] = "create_listener"
    /\ enable_ucxx
    /\ listeners' = Append(listeners, [closed |-> FALSE, releases |-> 0])
    /\ learner_data_server' = Len(listeners) + 1
    /\ pc_bg' = [pc_bg EXCEPT ![t] = "keep_alive"]
    /\ h_close_snap' = <<>>
    /\ UNCHANGED <<enable_ucxx, running, executor_shutdown, loop, loops, pc_main,
                   pc_close, escaped, h_serve_calls, h_close_calls, h_shutdown,
                   h_bind_failed, h_was_stopped>>
    /\ UNCHANGED http_vars
    /\ UNCHANGED data_vars

\* Lines 137, 151-154: create_listener raises (the port is in use); the
\* exception is caught and printed and the coroutine returns.
StartUcxxServerBindFails(t) ==
    /\ pc_bg[t] = "create_listener"
    /\ enable_ucxx
    /\ h_bind_failed' = TRUE
    /\ pc_bg' = [pc_bg EXCEPT ![t] = "finally"]
    /\ h_close_snap' = <<>>
    /\ UNCHANGED <<enable_ucxx, running, learner_data_server, listeners,
                   executor_shutdown, loop, loops, pc_main, pc_close, escaped,
                   h_serve_calls, h_close_calls, h_shutdown,
                   h_was_stopped>>
    /\ UNCHANGED http_vars
    /\ UNCHANGED data_vars

\* Lines 144-148: the keep-alive condition.
KeepAliveCondition ==
    /\ running
    /\ learner_data_server # 0
    /\ ~listeners[learner_data_server].closed

\* Lines 144-149: the condition holds and the coroutine sleeps one second.
StartUcxxServerSleep(t) ==
    /\ pc_bg[t] = "keep_alive"
    /\ KeepAliveCondition
    /\ pc_bg' = [pc_bg EXCEPT ![t] = "sleeping"]
    /\ h_close_snap' = <<>>
    /\ UNCHANGED <<enable_ucxx, running, learner_data_server, listeners,
                   executor_shutdown, loop, loops, pc_main, pc_close, escaped,
                   h_serve_calls, h_close_calls, h_shutdown, h_bind_failed, h_was_stopped>>
    /\ UNCHANGED http_vars
    /\ UNCHANGED data_vars

\* Line 149: asyncio.sleep(1) returns and the condition is evaluated again.
StartUcxxServerWake(t) ==
    /\ pc_bg[t] = "sleeping"
    /\ pc_bg' = [pc_bg EXCEPT ![t] = "keep_alive"]
    /\ h_close_snap' = <<>>
    /\ UNCHANGED <<enable_ucxx, running, learner_data_server, listeners,
                   executor_shutdown, loop, loops, pc_main, pc_close, escaped,
                   h_serve_calls, h_close_calls, h_shutdown, h_bind_failed, h_was_stopped>>
    /\ UNCHANGED http_vars
    /\ UNCHANGED data_vars

\* Lines 144-154: the condition fails, the coroutine leaves the loop and
\* returns; run_until_complete returns.
StartUcxxServerStop(t) ==
    /\ pc_bg[t] = "keep_alive"
    /\ ~KeepAliveCondition
    /\ pc_bg' = [pc_bg EXCEPT ![t] = "finally"]
    /\ h_close_snap' = <<>>
    /\ UNCHANGED <<enable_ucxx, running, learner_data_server, listeners,
                   executor_shutdown, loop, loops, pc_main, pc_close, escaped,
                   h_serve_calls, h_close_calls, h_shutdown, h_bind_failed, h_was_stopped>>
    /\ UNCHANGED http_vars
    /\ UNCHANGED data_vars

\* Lines 292-293: finally: self._running = False.
RunAsyncTasksFinally(t) ==
    /\ pc_bg[t] = "finally"
    /\ SetRunning(FALSE)
    /\ pc_bg' = [pc_bg EXCEPT ![t] = "close_loop"]
    /\ h_close_snap' = <<>>
    /\ UNCHANGED <<enable_ucxx, learner_data_server, listeners, executor_shutdown,
                   loop, loops, pc_main, pc_close, escaped, h_serve_calls,
                   h_close_calls, h_shutdown, h_bind_failed>>
    /\ UNCHANGED http_vars
    /\ UNCHANGED data_vars

\* Lines 294-295: self._loop.close() closes the loop self._loop refers to now,
\* which is the loop of the thread that stored it last. Closing a loop that
\* another thread is running raises RuntimeError, which ends the thread.
RunAsyncTasksCloseLoop(t) ==
    /\ pc_bg[t] = "close_loop"
    /\ loops' = IF loop # 0 /\ ~LoopRunning(loop)
                THEN [loops EXCEPT ![loop] = "closed"] ELSE loops
    /\ pc_bg' = [pc_bg EXCEPT ![t] =
                    IF loop # 0 /\ LoopRunning(loop) THEN "raised" ELSE "done"]
    /\ h_close_snap' = <<>>
    /\ UNCHANGED <<enable_ucxx, running, learner_data_server, listeners,
                   executor_shutdown, loop, pc_main, pc_close, escaped,
                   h_serve_calls, h_close_calls, h_shutdown, h_bind_failed,
                   h_was_stopped>>
    /\ UNCHANGED http_vars
    /\ UNCHANGED data_vars

(* ------------------------------- close -------------------------------- *)
\* Line 90: self._running = False.
CloseSetRunning ==
    /\ pc_close = "idle"
    /\ h_close_calls < MaxClose
    /\ SetRunning(FALSE)
    /\ h_close_calls' = h_close_calls + 1
    /\ h_shutdown' = TRUE
    /\ pc_close' = "close_server"
    /\ h_close_snap' = IF h_close_snap = <<>> THEN <<<<>>, 0>> ELSE h_close_snap
    /\ UNCHANGED <<enable_ucxx, learner_data_server, listeners, executor_shutdown,
                   loop, loops, pc_main, pc_bg, escaped, h_serve_calls,
                   h_bind_failed>>
    /\ UNCHANGED http_vars
    /\ UNCHANGED data_vars

\* Line 94: what listener.close() may do. An open listener is closed and its
\* port released; on a listener that is already closed the library either does
\* nothing or raises.
ListenerCloseOutcomes(ls, i) ==
    IF ls[i].closed
    THEN {[listeners |-> ls, raised |-> FALSE], [listeners |-> ls, raised |-> TRUE]}
    ELSE {[listeners |->
              [ls EXCEPT ![i].closed = TRUE, ![i].releases = @ + 1],
           raised |-> FALSE]}

PropagatingClose(raised) == raised
\* Lines 93-96: try: ... except BaseException: pass. Whether an exception
\* raised by listener.close() leaves close().
CloseServerEscapes(raised) == FALSE

\* Lines 92-96: the listener handle is never reset to None, so every close()
\* after the listener was created calls listener.close().
CloseDataServer ==
    /\ pc_close = "close_server"
    /\ IF learner_data_server # 0
       THEN \E o \in ListenerCloseOutcomes(listeners, learner_data_server) :
               /\ listeners' = o.listeners
               /\ escaped' = IF CloseServerEscapes(o.raised)
                             THEN escaped \cup {"close"} ELSE escaped
               /\ pc_close' = IF CloseServerEscapes(o.raised)
                              THEN "idle" ELSE "close_executor"
       ELSE /\ UNCHANGED <<listeners, escaped>>
            /\ pc_close' = "close_executor"
    /\ UNCHANGED <<enable_ucxx, running, learner_data_server, executor_shutdown,
                   loop, loops, pc_main, pc_bg, h_serve_calls, h_close_calls,
                   h_shutdown, h_bind_failed, h_was_stopped,
                   h_close_snap>>
    /\ UNCHANGED http_vars
    /\ UNCHANGED data_vars

\* Lines 99-102: self._executor.shutdown(wait=False); a second shutdown of a
\* ThreadPoolExecutor does nothing. close() returns.
CloseExecutor ==
    /\ pc_close = "close_executor"
    /\ executor_shutdown' = TRUE
    /\ pc_close' = "idle"
    /\ UNCHANGED <<enable_ucxx, running, learner_data_server, listeners, loop,
                   loops, pc_main, pc_bg, escaped, h_serve_calls, h_close_calls,
                   h_shutdown, h_bind_failed, h_was_stopped>>
    /\ UNCHANGED http_vars
    /\ UNCHANGED data_vars
    /\ h_close_snap' = IF h_close_snap = <<>> THEN <<>>
                      ELSE IF h_close_snap[2] = 0 THEN <<BridgeState', 1>>
                      ELSE <<h_close_snap[1], h_close_snap[2] + 1>>

(* --------------------------- control-plane --------------------------- *)
Serving == pc_main = "serving"

lifecycle_vars ==
    <<enable_ucxx, running, learner_data_server, listeners, executor_shutdown,
      loop, loops, pc_main, pc_bg, pc_close, h_serve_calls, h_close_calls,
      h_shutdown, h_bind_failed, h_was_stopped>>

\* self._ucxx_handler is read by root() (line 162) and assigned nowhere in the
\* class: the attribute does not exist on any instance.
has_ucxx_handler == FALSE

\* What the client gets when an exception leaves a handler: the framework's
\* plain 500 response.
UnhandledResponse(op) ==
    [op |-> op, status |-> "unhandled", code |-> 500, actor_id |-> Absent,
     data_size |-> NoSize, ucxx_enabled |-> FALSE, ucxx_port |-> 0,
     has_stats |-> FALSE]

\* Lines 164-175: the body root() returns.
RootResponse(enabled) ==
    [op |-> "root", status |-> "healthy", code |-> 200, actor_id |-> Absent,
     data_size |-> NoSize, ucxx_enabled |-> enabled, ucxx_port |-> DataPort,
     has_stats |-> TRUE]

\* Lines 159-175: GET /. Evaluating self._ucxx_handler raises AttributeError
\* before the response is built, and root() has no try block: the exception
\* leaves the handler and the client gets the framework's 500 response.
root ==
    /\ Serving
    /\ last_response' = IF has_ucxx_handler THEN RootResponse(enable_ucxx)
                        ELSE UnhandledResponse("root")
    /\ h_close_snap' = <<>>
    /\ UNCHANGED lifecycle_vars
    /\ UNCHANGED data_vars
    /\ UNCHANGED <<actor_info, clock, inflight, escaped, h_probes, h_handled>>

\* Lines 180-185: the body available() returns; the enabled flag reported is
\* the constructor argument.
AvailableResponse(enabled) ==
    [op |-> "available", status |-> "success", code |-> 200, actor_id |-> Absent,
     data_size |-> NoSize, ucxx_enabled |-> enabled, ucxx_port |-> DataPort,
     has_stats |-> FALSE]

\* Lines 177-185: GET /available.
available ==
    /\ Serving
    /\ last_response' = AvailableResponse(enable_ucxx)
    /\ h_close_snap' = <<>>
    /\ UNCHANGED lifecycle_vars
    /\ UNCHANGED data_vars
    /\ UNCHANGED <<actor_info, clock, inflight, escaped, h_probes, h_handled>>

\* rlink.utils.msgpack_numpy.unpackb: decoding fails on malformed bytes and
\* otherwise yields the decoded object.
unpackb(body) == [ok |-> body.kind # "malformed", obs |-> body]

GetActorIdNoDefault(obs) ==
    IF obs.actor_id = Absent THEN Nil ELSE obs.actor_id
\* Line 195: obs.get("actor_id", "unknown_actor").
GetActorId(obs) ==
    IF obs.actor_id = Absent THEN Str("unknown_actor") ELSE obs.actor_id

\* Line 196: obs.get("data_size", 0).
GetDataSize(obs) == IF obs.data_size = NoSize THEN 0 ELSE obs.data_size

ResetProbeCount(info, actor_id) == 1
\* Lines 204-207: self._actor_info.get(actor_id, {}).get("probe_count", 0) + 1.
NextProbeCount(info, actor_id) ==
    (IF actor_id \in DOMAIN info THEN info[actor_id].probe_count ELSE 0) + 1

MergeActorInfo(info, actor_id, data_size, request_time) ==
    [a \in DOMAIN info \cup {actor_id} |->
        IF a = actor_id
        THEN [data_size |-> IF a \in DOMAIN info THEN info[a].data_size
                            ELSE data_size,
              last_probe |-> request_time,
              probe_count |-> NextProbeCount(info, actor_id)]
        ELSE info[a]]
ReplaceActorInfo(info, actor_id, data_size, request_time) ==
    [a \in {actor_id} |->
        [data_size |-> data_size, last_probe |-> request_time,
         probe_count |-> NextProbeCount(info, actor_id)]]
\* Lines 201-208: the record stored for actor_id, one dictionary assignment.
UpdateActorInfo(info, actor_id, data_size, request_time) ==
    [a \in DOMAIN info \cup {actor_id} |->
        IF a = actor_id
        THEN [data_size |-> data_size, last_probe |-> request_time,
              probe_count |-> NextProbeCount(info, actor_id)]
        ELSE info[a]]

\* Lines 222-226: the response headers are encoded as latin-1 text, which only
\* a str value supports; any other actor_id raises when the response is built.
HeaderValueOk(actor_id) == actor_id.t = "str"

\* Lines 211-226: the success response.
ProbeSuccess(actor_id, data_size, enabled) ==
    [op |-> "data_probe", status |-> "success", code |-> 200,
     actor_id |-> actor_id, data_size |-> data_size, ucxx_enabled |-> enabled,
     ucxx_port |-> DataPort, has_stats |-> FALSE]

\* Lines 228-241: the error response built by the except clause.
ProbeError ==
    [op |-> "data_probe", status |-> "error", code |-> 500, actor_id |-> Absent,
     data_size |-> NoSize, ucxx_enabled |-> FALSE, ucxx_port |-> 0,
     has_stats |-> FALSE]

\* Lines 190-241: the handler body as a function of the registry, the request
\* body and the time read at line 191: the registry it leaves and the response.
\* Every statement of the try block runs in order; the first one that raises
\* transfers to the except clause with the effects made so far kept.
DataProbeResult(info, body, request_time, enabled) ==
    LET dec == unpackb(body) IN
    IF ~dec.ok
    THEN [info |-> info, response |-> ProbeError]
    ELSE IF dec.obs.kind # "map"
    THEN [info |-> info, response |-> ProbeError]
    ELSE LET actor_id  == GetActorId(dec.obs)
             data_size == GetDataSize(dec.obs)
         IN  IF ~Hashable(actor_id)
             THEN [info |-> info, response |-> ProbeError]
             ELSE LET updated ==
                          UpdateActorInfo(info, actor_id, data_size, request_time)
                  IN  IF HeaderValueOk(actor_id)
                      THEN [info |-> updated,
                            response |-> ProbeSuccess(actor_id, data_size, enabled)]
                      ELSE [info |-> updated, response |-> ProbeError]

\* A POST /data_probe request reaches the server: its body is read (the await
\* that precedes the handler) and it waits for the event loop to run the handler.
ProbeArrives(body) ==
    /\ Serving
    /\ h_probes < MaxProbes
    /\ inflight' = [inflight EXCEPT ![body] = @ + 1]
    /\ h_probes' = h_probes + 1
    /\ h_close_snap' = <<>>
    /\ UNCHANGED lifecycle_vars
    /\ UNCHANGED data_vars
    /\ UNCHANGED <<actor_info, clock, last_response, escaped, h_handled>>

RECURSIVE SumOver(_, _)
SumOver(f, S) ==
    IF S = {} THEN 0
    ELSE LET x == CHOOSE y \in S : TRUE IN f[x] + SumOver(f, S \ {x})

\* The number of requests whose handler has not run yet.
Waiting == SumOver(inflight, Bodies)

\* Lines 187-241: the event loop runs the handler of one waiting request, from
\* its first statement to its return, without suspension.
data_probe(body) ==
    /\ Serving
    /\ inflight[body] > 0
    /\ LET r == DataProbeResult(actor_info, body, clock, enable_ucxx) IN
        /\ actor_info' = r.info
        /\ last_response' = r.response
        /\ h_handled' = Append(h_handled,
              [body |-> body, time |-> clock, response |-> r.response,
               waiting |-> Waiting])
    /\ clock' = clock + 1
    /\ inflight' = [inflight EXCEPT ![body] = @ - 1]
    /\ h_close_snap' = <<>>
    /\ UNCHANGED lifecycle_vars
    /\ UNCHANGED data_vars
    /\ UNCHANGED <<escaped, h_probes>>

(* ----------------------------- data-plane ---------------------------- *)
\* max_queue_size as given to the constructor (lines 44, 60).
MaxQueueSize == 1

\* The actor behind each connection.
ConnActor(c) == IF c = 1 THEN Str("actor-7") ELSE Str("A")

\* An Envelope as the learner sees it: bytes, which either decode to a record
\* carrying the actor's metadata or do not decode.
Envelope(c, ok) == [actor_id |-> ConnActor(c), decodable |-> ok]

\* Lines 137-139: the callbacks of a listener run on the event loop of the
\* thread that created it, which runs while that thread is in its keep-alive
\* wait.
DataLoopRunning ==
    \E t \in Threads : pc_bg[t] \in {"keep_alive", "sleeping"}

\* Lines 137-139 and 22: an actor connects to an open listener; ucxx creates
\* the endpoint and starts actor_data_callback(ep) on the event loop, where it
\* waits in recv_obj.
ActorConnects(c) ==
    /\ conns[c].pc = "none"
    /\ DataLoopRunning
    /\ \E l \in 1..Len(listeners) :
          /\ ~listeners[l].closed
          /\ conns' = [conns EXCEPT ![c] =
                          [NoConn EXCEPT !.pc = "recv", !.up = TRUE,
                                         !.listener = l]]
    /\ h_close_snap' = <<>>
    /\ UNCHANGED lifecycle_vars
    /\ UNCHANGED http_vars
    /\ UNCHANGED <<escaped, h_delivered>>

\* The actor sends one more Envelope on its open connection.
ActorSends(c, ok) ==
    /\ conns[c].up
    /\ Len(conns[c].sent) < MaxMsgs
    /\ conns' = [conns EXCEPT ![c].sent = Append(@, Envelope(c, ok))]
    /\ h_close_snap' = <<>>
    /\ UNCHANGED lifecycle_vars
    /\ UNCHANGED http_vars
    /\ UNCHANGED <<escaped, h_delivered>>

\* Lines 28-29: recv_obj returns the next object the actor sent; its length
\* is printed. The bytes are not decoded.
CallbackRecv(c) ==
    /\ conns[c].pc = "recv"
    /\ DataLoopRunning
    /\ conns[c].received < Len(conns[c].sent)
    /\ conns' = [conns EXCEPT ![c].received = @ + 1, ![c].pc = "send"]
    /\ h_close_snap' = <<>>
    /\ UNCHANGED lifecycle_vars
    /\ UNCHANGED http_vars
    /\ UNCHANGED <<escaped, h_delivered>>

\* Line 30 and the end of the function: send_obj sends the received object
\* back and actor_data_callback returns; nothing reads the endpoint again.
CallbackSend(c) ==
    /\ conns[c].pc = "send"
    /\ DataLoopRunning
    /\ conns[c].up
    /\ conns' = [conns EXCEPT
                    ![c].acks = Append(@, conns[c].sent[conns[c].received]),
                    ![c].pc = "returned"]
    /\ h_close_snap' = <<>>
    /\ UNCHANGED lifecycle_vars
    /\ UNCHANGED http_vars
    /\ UNCHANGED <<escaped, h_delivered>>

\* The actor closes its connection (or its process ends). A callback waiting
\* in recv_obj or send_obj (lines 28, 30) gets the transport's exception,
\* which ends it.
ActorDisconnects(c) ==
    /\ conns[c].up
    /\ conns' = [conns EXCEPT
                    ![c].up = FALSE,
                    ![c].pc = IF @ \in {"recv", "send"} THEN "raised" ELSE @]
    /\ h_close_snap' = <<>>
    /\ UNCHANGED lifecycle_vars
    /\ UNCHANGED http_vars
    /\ UNCHANGED <<escaped, h_delivered>>

(* --------------------------- specification ---------------------------- *)
\* The steps of a background thread up to its keep-alive wait, and its way out
\* once the coroutine has returned.
BackgroundStep ==
    \/ \E t \in Threads : RunAsyncTasksBegin(t)
    \/ \E t \in Threads : StartUcxxServerListen(t)
    \/ \E t \in Threads : StartUcxxServerBindFails(t)
    \/ \E t \in Threads : StartUcxxServerSleep(t)
    \/ \E t \in Threads : StartUcxxServerWake(t)
    \/ \E t \in Threads : RunAsyncTasksFinally(t)
    \/ \E t \in Threads : RunAsyncTasksCloseLoop(t)

\* The lifecycle of the instance: serve_forever() called again after it
\* returned, the background threads, close() from any thread, and the two
\* control-plane operations that take no input.
Next ==
    \/ ServeForeverSetRunning
    \/ ServeForeverStartThread
    \/ ServeForeverServe
    \/ ServeForeverBindFails
    \/ ServeForeverExit
    \/ BackgroundStep
    \/ \E t \in Threads : StartUcxxServerStop(t)
    \/ CloseSetRunning
    \/ CloseDataServer
    \/ CloseExecutor
    \/ root
    \/ available

Spec == Init /\ [][Next]_vars

\* The control-plane during a serve_forever() call that keeps serving and is
\* not closed: startup, the background thread, and the three operations, with
\* Probe requests handled in any order of arrival. (Nothing clears the flag
\* under an open listener here, so the keep-alive loop is never left.)
NextControl ==
    \/ ServeForeverSetRunning
    \/ ServeForeverStartThread
    \/ ServeForeverServe
    \/ BackgroundStep
    \/ root
    \/ available
    \/ \E body \in Bodies : ProbeArrives(body)
    \/ \E body \in Bodies : data_probe(body)

SpecControl == Init /\ [][NextControl]_vars

\* Lines 270-302 and 127-142: serve_forever() has set the flag and has not yet
\* reached uvicorn.run(), or a background thread has not yet created its
\* listener.
StartupInProgress ==
    \/ pc_main \in {"start_thread", "sleep"}
    \/ \E t \in Threads : pc_bg[t] \in {"new_loop", "create_listener"}

\* close() entered by another thread while the startup is in progress.
CloseDuringStartup ==
    /\ StartupInProgress
    /\ CloseSetRunning

\* One serve_forever() call that keeps serving, its background thread, and
\* close() calls that begin while the startup is in progress.
NextStartup ==
    \/ ServeForeverSetRunning
    \/ ServeForeverStartThread
    \/ ServeForeverServe
    \/ BackgroundStep
    \/ \E t \in Threads : StartUcxxServerStop(t)
    \/ CloseDuringStartup
    \/ CloseDataServer
    \/ CloseExecutor

SpecStartup == Init /\ [][NextStartup]_vars

\* The data-plane during a serve_forever() call that keeps serving and is not
\* closed: startup, the background thread, and actors that connect, send
\* Envelopes and disconnect.
NextData ==
    \/ ServeForeverSetRunning
    \/ ServeForeverStartThread
    \/ ServeForeverServe
    \/ BackgroundStep
    \/ \E c \in Conns : ActorConnects(c)
    \/ \E c \in Conns, ok \in BOOLEAN : ActorSends(c, ok)
    \/ \E c \in Conns : CallbackRecv(c)
    \/ \E c \in Conns : CallbackSend(c)
    \/ \E c \in Conns : ActorDisconnects(c)

SpecData == Init /\ [][NextData]_vars

(* ------------------------------ claims -------------------------------- *)
AllKeys == ActorIdVals \cup {Str("unknown_actor")}
Handled == 1..Len(h_handled)
MaxOf(S) == CHOOSE x \in S : \A y \in S : y <= x

\* The handlers that answered success for actor_id a.
SuccessesFor(a) ==
    {i \in Handled : /\ h_handled[i].response.status = "success"
                     /\ h_handled[i].response.actor_id = a}

\* C1: as long as every Probe handled so far succeeded, the record of each
\* actor_id has probe_count equal to the number of its Probes and data_size
\* equal to the data_size of its latest Probe, and an actor_id that made no
\* Probe has no record.
C1_ProbeCountAndSize ==
    (\A i \in Handled : h_handled[i].response.status = "success")
    => \A a \in AllKeys :
          IF SuccessesFor(a) = {}
          THEN a \notin DOMAIN actor_info
          ELSE /\ a \in DOMAIN actor_info
               /\ actor_info[a].probe_count = Cardinality(SuccessesFor(a))
               /\ actor_info[a].data_size =
                      h_handled[MaxOf(SuccessesFor(a))].response.data_size

\* C1 witness: the literal scenario, actor-7 probed with 100 and then 200.
C1_Witness ==
    /\ Len(h_handled) = 2
    /\ h_handled[1].body = MapBody(Str("actor-7"), 100)
    /\ h_handled[2].body = MapBody(Str("actor-7"), 200)
    /\ h_handled[1].response.status = "success"
    /\ h_handled[2].response.status = "success"
    /\ actor_info[Str("actor-7")].probe_count = 2
    /\ actor_info[Str("actor-7")].data_size = 200

\* The handlers that reached the registry update for actor_id a.
UpdatesFor(a) ==
    {i \in Handled : /\ h_handled[i].body.kind = "map"
                     /\ GetActorId(h_handled[i].body) = a}

\* C2: whatever the order in which the handlers of concurrently waiting Probe
\* requests run, the record of each actor_id counts exactly the requests
\* handled for it, and its fields are those written by one handler (the last
\* one to run for that actor_id).
C2_NoLostUpdate ==
    \A a \in {k \in AllKeys : Hashable(k)} :
        IF UpdatesFor(a) = {}
        THEN a \notin DOMAIN actor_info
        ELSE /\ a \in DOMAIN actor_info
             /\ actor_info[a].probe_count = Cardinality(UpdatesFor(a))
             /\ LET e == h_handled[MaxOf(UpdatesFor(a))] IN
                   /\ actor_info[a].data_size = GetDataSize(e.body)
                   /\ actor_info[a].last_probe = e.time

\* C2 witness: two requests for actor-7 waited at the same time and both
\* handlers have run, the later arrival order being free.
C2_Witness ==
    /\ Len(h_handled) = 2
    /\ h_handled[1].waiting = 2
    /\ h_handled[1].body = MapBody(Str("actor-7"), 200)
    /\ h_handled[2].body = MapBody(Str("actor-7"), 100)
    /\ actor_info[Str("actor-7")].probe_count = 2

\* C3: every Status response is healthy and carries the enabled flag, the
\* data-plane port and the stats.
C3_StatusNeverFails ==
    last_response.op = "root"
    => /\ last_response.status = "healthy"
       /\ last_response.code = 200
       /\ last_response.ucxx_enabled = enable_ucxx
       /\ last_response.ucxx_port = DataPort
       /\ last_response.has_stats

C5_NoEmptyIdentifier ==
    /\ Str("") \notin DOMAIN actor_info
    /\ Nil \notin DOMAIN actor_info
    /\ \A i \in Handled :
          h_handled[i].body.actor_id \in {Str(""), Nil}
          => h_handled[i].response.status # "success"

\* C6: once the data-plane listener failed to bind, every response a
\* control-plane handler returns reports the data-plane as not enabled.
C6_BindFailureReported ==
    [][(h_bind_failed /\ last_response' # last_response
            /\ last_response'.status # "unhandled")
          => last_response'.ucxx_enabled = FALSE]_vars

\* C7: once running has gone from true to false it is never true again.
C7_RunningTerminal == [][h_was_stopped => ~running']_vars

\* C8 as stated: whenever running is true the control-plane is serving and,
\* with the data-plane enabled, the listener has been created.
C8_RunningMeansInitialized ==
    running => (Serving /\ (enable_ucxx => learner_data_server # 0))

\* C8 amended: running is false at construction and is set true only by the
\* first statement of a serve_forever() call, before that call has started its
\* background thread or the control-plane.
C8_RunningSetByServeForever ==
    /\ ~running
    /\ [][(~running /\ running')
            => (/\ pc_main = "idle" /\ pc_main' = "start_thread"
                /\ h_serve_calls' = h_serve_calls + 1
                /\ pc_bg'[h_serve_calls'] = "unstarted")]_vars

\* C8 witness: running is true while the call that set it has neither started
\* its thread nor the control-plane, and no listener exists.
C8_Witness ==
    running /\ pc_main = "start_thread" /\ learner_data_server = 0

\* C9: while serve_forever() serves, with no shutdown requested and no bind
\* failure, running is true.
C9_RunningWhileServing ==
    (Serving /\ ~h_shutdown /\ ~h_bind_failed) => running

\* C10: while close() calls follow one another with nothing else running in
\* between, the instance stays in the state the first of them left, no
\* exception leaves close(), and no listener is released more than once.
C10_CloseIdempotent ==
    /\ (h_close_snap # <<>> /\ h_close_snap[2] >= 1)
       => (h_close_snap[1] = BridgeState /\ "close" \notin escaped)
    /\ \A i \in 1..Len(listeners) : listeners[i].releases <= 1

\* C10 witness: two close() calls in succession have returned, both having
\* called close() on the same listener.
C10_Witness ==
    /\ h_close_snap # <<>>
    /\ h_close_snap[2] = 2
    /\ pc_close = "idle"
    /\ learner_data_server # 0
    /\ listeners[learner_data_server].closed

\* The background threads are not running: each was never started or has
\* ended (normally, or by the exception of line 295).
BackgroundQuiesced ==
    \A t \in Threads : pc_bg[t] \in {"unstarted", "done", "raised"}

AllListenersClosed ==
    \A i \in 1..Len(listeners) : listeners[i].closed

\* C11: close() concurrent with an in-progress startup: once close() has
\* returned, the startup steps are over and the background threads have
\* ended, running is false and no data-plane listener is left open.
C11_CloseSafeDuringStartup ==
    (/\ h_close_calls >= 1
     /\ pc_close = "idle"
     /\ pc_main \notin {"start_thread", "sleep"}
     /\ BackgroundQuiesced)
        => (~running /\ AllListenersClosed)

\* C12: after serve_forever() has left the control-plane server and the
\* background threads have ended, with close() never called, the data-plane
\* listener is closed. (In such a state no step of the program is pending, so
\* a listener that is open there stays open.)
C12_InterruptReleasesDataPlane ==
    (/\ h_serve_calls >= 1
     /\ pc_main = "idle"
     /\ h_close_calls = 0
     /\ BackgroundQuiesced)
        => (~running /\ AllListenersClosed)

\* C13: a background thread that has left the keep-alive wait and terminated
\* (the data-plane is enabled and every listener was created, so each thread
\* that ended went through the wait) has closed its event loop.
\* (A terminated thread takes no further step, and a later thread stores and
\* closes its own loop, so a loop that is open there stays open.)
C13_TerminatedThreadClosedLoop ==
    (enable_ucxx /\ ~h_bind_failed) =>
        \A t \in Threads :
            pc_bg[t] \in {"done", "raised"} => loops[t] = "closed"

\* C19: whenever a Probe ends with the error-status (500) response, the
\* registry is identical to what it was before the request.
C19_RegistryUnchangedOnError ==
    [][\A body \in Bodies :
          (data_probe(body) /\ last_response'.status = "error")
              => actor_info' = actor_info]_vars

\* The actor_id a Probe with this body is handled for (none when the body does
\* not decode to a record).
ProbeActor(body) ==
    IF unpackb(body).ok /\ body.kind = "map" THEN GetActorId(body) ELSE Absent

\* C20: a Probe for actor_id a leaves the record of every other actor_id as
\* it was and adds no key but a; Status and Availability leave the registry,
\* the running flag and the data-plane listener handle unchanged.
C20_ControlPlaneFrame ==
    [][/\ \A body \in Bodies :
            data_probe(body) =>
                /\ DOMAIN actor_info' \subseteq
                       DOMAIN actor_info \cup {ProbeActor(body)}
                /\ \A a \in DOMAIN actor_info \ {ProbeActor(body)} :
                       a \in DOMAIN actor_info' /\ actor_info'[a] = actor_info[a]
       /\ (root \/ available) =>
              UNCHANGED <<actor_info, running, learner_data_server>>]_vars

\* Two actors are registered (the second Probe ran with another actor's
\* record present) and Availability was answered over that registry.
C20_Witness ==
    /\ Cardinality(DOMAIN actor_info) >= 2
    /\ last_response.op = "available"

\* The listener that accepted connection c is still serving: it is not
\* closed and the flag is set.
ListenerServing(c) ==
    /\ conns[c].pc # "none"
    /\ ~listeners[conns[c].listener].closed
    /\ running

\* C14: a data-plane connection is persistent: while the actor holds it open
\* and the listener is not stopped, the connection is being served (its
\* handler waits for the next Envelope or is about to acknowledge one), so
\* that the k-th Envelope is received and acknowledged for every k.
C14_ConnectionPersistent ==
    \A c \in Conns :
        (conns[c].up /\ ListenerServing(c)) => conns[c].pc \in {"recv", "send"}

\* C15: every acknowledgment sent follows the invocation of data_callback
\* with that message and a registry record for the message's actor_id.
C15_CallbackAndTouchBeforeAck ==
    \A c \in Conns :
        \A k \in 1..Len(conns[c].acks) :
            conns[c].sent[k].decodable =>
                /\ \E j \in 1..Len(h_delivered) :
                      h_delivered[j] = [conn |-> c, msg |-> conns[c].sent[k]]
                /\ conns[c].sent[k].actor_id \in DOMAIN actor_info

\* Messages received whose acknowledgment has not been sent yet.
InFlight == Cardinality({c \in Conns : conns[c].pc = "send"})

\* C16: with max_queue_size = K, at most K messages are accepted and not yet
\* completed, over all connections.
C16_BackpressureBound == InFlight <= MaxQueueSize

\* C17: when message M of a connection does not decode and was received, and
\* the actor has sent message M+1 and holds the connection open, then M+1 has
\* been acknowledged or the connection's handler is still there to receive
\* and acknowledge it; and the listener is open and the flag set.
C17_FailureIsolation ==
    \A c \in Conns :
        \A k \in 1..conns[c].received :
            (/\ ~conns[c].sent[k].decodable
             /\ Len(conns[c].sent) > k
             /\ conns[c].up)
                => (/\ running
                    /\ ~listeners[conns[c].listener].closed
                    /\ \/ Len(conns[c].acks) > k
                       \/ conns[c].pc \in {"recv", "send"})

\* The actor_ids that have made contact: by a Probe that stored a record, or
\* by a data-plane message that was received and carries the actor_id.
Contacted ==
    {GetActorId(h_handled[i].body) :
        i \in {j \in 1..Len(h_handled) : h_handled[j].response.status = "success"}}
    \cup {ConnActor(c) :
            c \in {d \in Conns : \E k \in 1..conns[d].received :
                                    conns[d].sent[k].decodable}}

\* C18: the registry holds exactly one record per actor_id that has made
\* contact.
C18_OneRecordPerContact ==
    Cardinality(DOMAIN actor_info) = Cardinality(Contacted)

====
